---- MODULE Spec2Model ----
(***************************************************************************)
(* A model of the AI stock screener: the numeric helpers of                *)
(* data_processor.py / app.py (pivot points, Graham scan), the services of *)
(* ai_services.py (sentiment, AI report, news), the news tab's batch mean  *)
(* and the update_dashboard and update_live_price callbacks.               *)
(*                                                                         *)
(* Numbers.  Prices and pivot levels are Python/numpy floats.  They are    *)
(* modelled as a binary floating-point format with Precision mantissa bits *)
(* (binary64 has 53) and round-to-nearest, ties-to-even; a float is an     *)
(* integer m * 2^e with |m| < 2^Precision, e >= 0.  Ratios (P/E, P/B) are  *)
(* held in eighths and compound sentiment scores in hundredths.             *)
(***************************************************************************)
EXTENDS Integers, Sequences, FiniteSets, TLC

VARIABLES
    pc,             \* position of the running call / callback
    hist_df,        \* the price frame handed to the calculators
    pivot_points,   \* result of calculate_pivot_points
    info,           \* what the fundamentals provider answered run_graham_scan
    graham_scan,    \* result of run_graham_scan
    text,           \* the headline given to analyze_sentiment
    sentiment,      \* result of analyze_sentiment
    news_articles,  \* the article list given to the report composer / news tab
    gen_outcome,    \* how the text-generation provider behaves when called
    provider_log,   \* the calls made to the text-generation provider, in order
    ai_report,      \* result of get_ai_company_report
    news_tab,       \* result of create_news_tab
    stock_input,    \* value of the 'stock-input' field
    n_clicks,       \* n_clicks of the 'submit-button'
    dashboard,      \* children of 'dashboard-content'
    tab_children,   \* what the six tabs of the last assembled dashboard hold
    ticker,         \* update_dashboard's ticker
    stock_info,     \* (fundamentals, summary) from get_stock_info
    tech_df,        \* the frame with the indicator columns
    faults          \* the calls of the running request whose collaborator raised

pivotVars == <<hist_df, pivot_points>>
grahamVars == <<info, graham_scan>>
sentimentVars == <<text, sentiment>>
reportVars == <<gen_outcome, provider_log, ai_report>>
dashVars == <<stock_input, n_clicks, dashboard, tab_children, ticker, stock_info,
              tech_df, faults>>
vars == <<pc, hist_df, pivot_points, info, graham_scan, text, sentiment,
          news_articles, gen_outcome, provider_log, ai_report, news_tab,
          stock_input, n_clicks, dashboard, tab_children, ticker, stock_info,
          tech_df, faults>>

----------------------------------------------------------------------------
(* Bounds *)

Precision == 4      \* mantissa bits of the modelled float format
MaxBars == 3        \* longest price series of the pivot specification

----------------------------------------------------------------------------
(* Floating point *)

RECURSIVE Pow2(_)
Pow2(n) == IF n <= 0 THEN 1 ELSE 2 * Pow2(n - 1)

Abs(x) == IF x < 0 THEN -x ELSE x

MaxExp == 2 * Precision + 2

\* x is a value of the float format
IsFloat(x) == \E e \in 0..MaxExp : Abs(x) % Pow2(e) = 0 /\ Abs(x) \div Pow2(e) < Pow2(Precision)

\* n/d (n >= 0, d > 0) rounded to the nearest integer, ties to even
RoundHalfEven(n, d) ==
    LET q == n \div d
        r == n % d
    IN  IF 2 * r < d THEN q
        ELSE IF 2 * r > d THEN q + 1
        ELSE IF q % 2 = 0 THEN q ELSE q + 1

\* the exponent of the binade num/den falls in
Exponent(a, den) == CHOOSE e \in 0..MaxExp :
    /\ a < Pow2(Precision + e) * den
    /\ \A f \in 0..(e - 1) : a >= Pow2(Precision + f) * den

\* the float nearest to the real number num/den (den > 0)
Round(num, den) ==
    LET a == Abs(num)
        e == Exponent(a, den)
        m == RoundHalfEven(a, den * Pow2(e))
    IN  (IF num < 0 THEN -1 ELSE 1) * m * Pow2(e)

FAdd(x, y) == Round(x + y, 1)
FSub(x, y) == Round(x - y, 1)
FMul(x, y) == Round(x * y, 1)
FDiv(x, y) == Round(x, y)

----------------------------------------------------------------------------
(* Data frames *)

\* A DataFrame: column labels and rows of values, one value per column.
\* nlevels is 2 for MultiIndex columns, whose labels are pairs.
Frame(columns, rows) == [nlevels |-> 1, columns |-> columns, rows |-> rows]
MultiFrame(columns, rows) == [nlevels |-> 2, columns |-> columns, rows |-> rows]

\* pd.DataFrame()
EmptyFrame == Frame(<<>>, <<>>)

\* DataFrame.empty: any axis of length 0
IsEmpty(df) == Len(df.rows) = 0 \/ Len(df.columns) = 0

KeyError == [raised |-> "KeyError"]

HasColumn(df, name) == \E j \in 1..Len(df.columns) : df.columns[j] = name

\* row[name] of a row of df
Cell(df, row, name) ==
    row[CHOOSE j \in 1..Len(df.columns) : df.columns[j] = name]

EmptyDict == [k \in {} |-> 0]

----------------------------------------------------------------------------
(* calculate_pivot_points *)

PivotKeys == {"Resistance 2 (R2)", "Resistance 1 (R1)", "Pivot Point",
              "Support 1 (S1)", "Support 2 (S2)"}

\* lines 57-70 of calculate_pivot_points: the five levels of one candle
LevelsOf(df, candle) ==
    IF ~(HasColumn(df, "high") /\ HasColumn(df, "low") /\ HasColumn(df, "close"))
    THEN KeyError
    ELSE
    LET high  == Cell(df, candle, "high")
        low   == Cell(df, candle, "low")
        close == Cell(df, candle, "close")
        pivot == FDiv(FAdd(FAdd(high, low), close), 3)
        r1 == FSub(FMul(2, pivot), low)
        s1 == FSub(FMul(2, pivot), high)
        r2 == FAdd(pivot, FSub(high, low))
        s2 == FSub(pivot, FSub(high, low))
    IN  [k \in PivotKeys |->
            CASE k = "Resistance 2 (R2)" -> r2
              [] k = "Resistance 1 (R1)" -> r1
              [] k = "Pivot Point"       -> pivot
              [] k = "Support 1 (S1)"    -> s1
              [] k = "Support 2 (S2)"    -> s2]

\* calculate_pivot_points reading the last bar, df.iloc[-1]
calculate_pivot_points_last_bar(df) ==
    IF IsEmpty(df) \/ Len(df.rows) < 2 THEN EmptyDict
    ELSE LevelsOf(df, df.rows[Len(df.rows)])

\* calculate_pivot_points with the guard len(df) < 3
calculate_pivot_points_three_bars(df) ==
    IF IsEmpty(df) \/ Len(df.rows) < 3 THEN EmptyDict
    ELSE LevelsOf(df, df.rows[Len(df.rows) - 1])

\* calculate_pivot_points with r1 = 2*pivot - high
calculate_pivot_points_r1_high(df) ==
    IF IsEmpty(df) \/ Len(df.rows) < 2 THEN EmptyDict
    ELSE LET good == LevelsOf(df, df.rows[Len(df.rows) - 1])
         IN  [good EXCEPT !["Resistance 1 (R1)"] = good["Support 1 (S1)"]]

calculate_pivot_points(df) ==
    IF IsEmpty(df) \/ Len(df.rows) < 2 THEN EmptyDict
    ELSE LET last_candle == df.rows[Len(df.rows) - 1]
         IN  LevelsOf(df, last_candle)

----------------------------------------------------------------------------
(* Python values *)

\* Values met in provider mappings: None, a number, or something that is
\* not a number (yfinance reports some ratios as the string 'Infinity').
PyNone == [kind |-> "none", v |-> 0, s |-> ""]
Num(n) == [kind |-> "num", v |-> n, s |-> ""]
Str(x) == [kind |-> "str", v |-> 0, s |-> x]
NotNumber == Str("Infinity")

\* None where a list is expected
NoList == [kind |-> "none", v |-> <<>>]

PyList(items) == [kind |-> "list", v |-> items]
IsNone(x) == x.kind = "none"

\* not x, for x a list or None
IsFalsy(x) == x.kind = "none" \/ (x.kind = "list" /\ Len(x.v) = 0)

\* dict.get(key): the value, or None when the key is missing
Get(d, key) == IF key \in DOMAIN d THEN d[key] ELSE PyNone

\* what a provider call yields when it raises
ProviderError == [raised |-> "ProviderError"]

----------------------------------------------------------------------------
(* run_graham_scan.  Ratios are held in eighths (exact binary fractions). *)

GrahamPE == 120     \* 15, in eighths
GrahamPB == 12      \* 1.5, in eighths

\* f"{x:.2f}": the decimal string with two places, held as its hundredths;
\* the exact value is rounded to nearest, ties to even
Format2f(n) ==
    [kind |-> "str", s |-> "%.2f",
     v |-> (IF n < 0 THEN -1 ELSE 1) * RoundHalfEven(Abs(n) * 100, 8)]

GrahamResult(pe, pb, verdict) ==
    [k \in {"P/E Ratio", "P/B Ratio", "Verdict"} |->
        CASE k = "P/E Ratio" -> Format2f(pe)
          [] k = "P/B Ratio" -> Format2f(pb)
          [] k = "Verdict"   -> verdict]

NotEnoughData == [k \in {"Verdict"} |-> "Not enough data"]

\* run_graham_scan with pe <= 15 and pb <= 1.5
run_graham_scan_inclusive(resp) ==
    IF resp = ProviderError THEN EmptyDict
    ELSE LET pe == Get(resp, "trailingPE")
             pb == Get(resp, "priceToBook")
         IN  IF IsNone(pe) \/ IsNone(pb) THEN NotEnoughData
             ELSE IF pe.kind # "num" \/ pb.kind # "num" THEN EmptyDict
             ELSE GrahamResult(pe.v, pb.v,
                      IF pe.v <= GrahamPE /\ pb.v <= GrahamPB
                      THEN "Potentially Undervalued"
                      ELSE "Not Meeting Graham Criteria")

\* The statement of the try block that raises, for the provider answer resp:
\* the provider call; pe < 15 and pb < 1.5, which raises TypeError on a
\* non-number that it compares (pb is compared only when pe < 15 is true);
\* or f"{pe:.2f}", f"{pb:.2f}", which raise ValueError on a non-number.
GrahamRaisedAt(resp) ==
    IF resp = ProviderError THEN "provider"
    ELSE LET pe == Get(resp, "trailingPE")
             pb == Get(resp, "priceToBook")
         IN  IF IsNone(pe) \/ IsNone(pb) THEN "nowhere"
             ELSE IF pe.kind # "num" THEN "comparison"
             ELSE IF pe.v < GrahamPE /\ pb.kind # "num" THEN "comparison"
             ELSE IF pb.kind # "num" THEN "format"
             ELSE "nowhere"

\* run_graham_scan returning the verdict without the formatted ratios
run_graham_scan_no_ratios(resp) ==
    IF GrahamRaisedAt(resp) # "nowhere" THEN EmptyDict
    ELSE LET pe == Get(resp, "trailingPE")
             pb == Get(resp, "priceToBook")
         IN  IF IsNone(pe) \/ IsNone(pb) THEN NotEnoughData
             ELSE [k \in {"Verdict"} |->
                      IF pe.v < GrahamPE /\ pb.v < GrahamPB
                      THEN "Potentially Undervalued"
                      ELSE "Not Meeting Graham Criteria"]

\* resp is what yf.Ticker(f"{ticker}.NS").info yields: a mapping, or a raise
run_graham_scan(resp) ==
    IF GrahamRaisedAt(resp) # "nowhere" THEN EmptyDict
    ELSE LET pe == Get(resp, "trailingPE")
             pb == Get(resp, "priceToBook")
         IN  IF IsNone(pe) \/ IsNone(pb) THEN NotEnoughData
             ELSE GrahamResult(pe.v, pb.v,
                      IF pe.v < GrahamPE /\ pb.v < GrahamPB
                      THEN "Potentially Undervalued"
                      ELSE "Not Meeting Graham Criteria")

----------------------------------------------------------------------------
(* analyze_sentiment.  Compound scores are held in hundredths. *)

PositiveThreshold == 5      \* 0.05
NegativeThreshold == -5     \* -0.05

\* SentimentIntensityAnalyzer().polarity_scores(text)['compound']: a headline
\* is represented by the compound score the analyzer gives it
PolarityCompound(headline) == headline.compound

\* analyze_sentiment with strict comparisons
analyze_sentiment_strict(headline) ==
    LET compound == PolarityCompound(headline)
    IN  IF compound > PositiveThreshold THEN <<"Positive", compound>>
        ELSE IF compound < NegativeThreshold THEN <<"Negative", compound>>
        ELSE <<"Neutral", compound>>

analyze_sentiment(headline) ==
    LET compound == PolarityCompound(headline)
    IN  IF compound >= PositiveThreshold THEN <<"Positive", compound>>
        ELSE IF compound <= NegativeThreshold THEN <<"Negative", compound>>
        ELSE <<"Neutral", compound>>

----------------------------------------------------------------------------
(* get_ai_company_report *)

NotEnoughNews == "Not enough recent news to generate a report."
ReportFallback == "Could not generate AI report at this time."

PromptHeadlines == 10   \* news_articles[:10]

\* xs[:n]
Take(xs, n) == SubSeq(xs, 1, IF Len(xs) < n THEN Len(xs) ELSE n)

\* the prompt: the company name and the "- title" lines of the headlines
Prompt(company_name, articles) ==
    [company |-> company_name,
     headlines |-> [i \in 1..Len(Take(articles, PromptHeadlines)) |-> articles[i].title]]

ProviderCall(name, arg) == [call |-> name, arg |-> arg]

\* Outcomes of the text-generation provider: it raises when the model is
\* constructed, in generate_content, or when response.text is read, or it
\* answers with a text.
GenFails(at) == [fails_at |-> at, text |-> ""]
GenAnswers(t) == [fails_at |-> "nowhere", text |-> t]

\* how a call ends: the value returned and the provider calls made, in
\* order; Propagated is a call that ends by raising to its caller
Returned(value, calls) == [raised |-> FALSE, value |-> value, calls |-> calls]
Propagated(calls) == [raised |-> TRUE, value |-> "", calls |-> calls]

\* get_ai_company_report without the not-news_articles guard
get_ai_company_report_no_guard(company_name, articles, outcome) ==
    LET items == IF articles.kind = "list" THEN articles.v ELSE <<>>
        construct == ProviderCall("GenerativeModel", [model |-> "gemini-1.5-flash"])
        generate == ProviderCall("generate_content", Prompt(company_name, items))
    IN  IF outcome.fails_at = "nowhere"
        THEN Returned(outcome.text, <<construct, generate>>)
        ELSE Returned(ReportFallback, <<construct>>)

\* get_ai_company_report with the try block ending before response.text
get_ai_company_report_text_outside_try(company_name, articles, outcome) ==
    IF IsFalsy(articles) THEN Returned(NotEnoughNews, <<>>)
    ELSE
    LET construct == ProviderCall("GenerativeModel", [model |-> "gemini-1.5-flash"])
        generate == ProviderCall("generate_content", Prompt(company_name, articles.v))
    IN  CASE outcome.fails_at = "GenerativeModel" -> Returned(ReportFallback, <<construct>>)
          [] outcome.fails_at = "generate_content" -> Returned(ReportFallback, <<construct, generate>>)
          [] outcome.fails_at = "text" -> Propagated(<<construct, generate>>)
          [] OTHER -> Returned(outcome.text, <<construct, generate>>)

get_ai_company_report(company_name, articles, outcome) ==
    IF IsFalsy(articles) THEN Returned(NotEnoughNews, <<>>)
    ELSE
    LET construct == ProviderCall("GenerativeModel", [model |-> "gemini-1.5-flash"])
        generate == ProviderCall("generate_content", Prompt(company_name, articles.v))
    IN  CASE outcome.fails_at = "GenerativeModel" -> Returned(ReportFallback, <<construct>>)
          [] outcome.fails_at = "generate_content" -> Returned(ReportFallback, <<construct, generate>>)
          [] outcome.fails_at = "text" -> Returned(ReportFallback, <<construct, generate>>)
          [] OTHER -> Returned(outcome.text, <<construct, generate>>)

----------------------------------------------------------------------------
(* create_news_tab *)

NoNewsMessage == "No recent news articles found."

\* total / n, kept as the fraction (the sum of the scores is kept exact)
Quotient(total, n) == [num |-> total, den |-> n]

\* the state of the for loop after the first k articles: the running
\* total, the elements built and the number of analyze_sentiment calls
RECURSIVE ScoreLoop(_, _)
ScoreLoop(articles, k) ==
    IF k = 0 THEN [total |-> 0, elements |-> <<>>, calls |-> 0]
    ELSE LET before == ScoreLoop(articles, k - 1)
             result == analyze_sentiment(articles[k].title)
         IN  [total |-> before.total + result[2],
              elements |-> Append(before.elements,
                                  [title |-> articles[k].title, href |-> articles[k].url,
                                   sentiment |-> result[1]]),
              calls |-> before.calls + 1]

MessageDiv(message) == [kind |-> "message", text |-> message]

\* create_news_tab dividing by len(news_articles) + 1
create_news_tab_off_by_one(articles) ==
    IF IsFalsy(articles) THEN MessageDiv(NoNewsMessage)
    ELSE LET loop == ScoreLoop(articles.v, Len(articles.v))
         IN  [kind |-> "news",
              avg_sentiment |-> Quotient(loop.total, Len(articles.v) + 1),
              news_elements |-> loop.elements,
              analyzer_calls |-> loop.calls]

create_news_tab(articles) ==
    IF IsFalsy(articles) THEN MessageDiv(NoNewsMessage)
    ELSE LET loop == ScoreLoop(articles.v, Len(articles.v))
         IN  [kind |-> "news",
              avg_sentiment |-> Quotient(loop.total, Len(articles.v)),
              news_elements |-> loop.elements,
              analyzer_calls |-> loop.calls]

----------------------------------------------------------------------------
(* Inputs of the pivot specifications *)

MinPrice == Pow2(Precision)
MaxPrice == Pow2(Precision + 2)

\* every float in the two binades above MinPrice
Prices == {x \in MinPrice..MaxPrice : IsFloat(x)}

\* the two lowest prices
SeriesPrices == {x \in Prices : Cardinality({y \in Prices : y < x}) < 2}

OHLCColumns == <<"close", "high", "low">>

\* rows <<close, high, low>>; malformed bars (low > high, ...) pass through
BarsOver(S) == {<<c, h, l>> : c \in S, h \in S, l \in S}

SeriesOver(B, n) == UNION {[1..k -> B] : k \in 0..n}

\* a local that has not been assigned yet
Unset == [unset |-> TRUE]

GrahamIdle == info = Unset /\ graham_scan = Unset
SentimentIdle == text = Unset /\ sentiment = Unset
ReportIdle == gen_outcome = Unset /\ provider_log = <<>> /\ ai_report = Unset
NewsIdle == news_articles = Unset /\ news_tab = Unset
PivotIdle == hist_df = Unset /\ pivot_points = Unset
DashIdle ==
    /\ stock_input = "RELIANCE" /\ n_clicks = 0
    /\ dashboard = Unset /\ tab_children = Unset
    /\ ticker = Unset /\ stock_info = Unset /\ tech_df = Unset /\ faults = {}

InitPivot ==
    /\ pc = "call"
    /\ GrahamIdle /\ SentimentIdle /\ ReportIdle /\ NewsIdle /\ DashIdle
    /\ hist_df \in {Frame(OHLCColumns, rows) : rows \in SeriesOver(BarsOver(SeriesPrices), MaxBars)}
    /\ pivot_points = Unset

\* two-bar series: any bar of Prices, then a flat latest bar
InitLevels ==
    /\ pc = "call"
    /\ GrahamIdle /\ SentimentIdle /\ ReportIdle /\ NewsIdle /\ DashIdle
    /\ hist_df \in {Frame(OHLCColumns, <<b, <<x, x, x>> >>) :
                        b \in BarsOver(Prices), x \in {MinPrice, MaxPrice}}
    /\ pivot_points = Unset

CallPivotPoints ==
    /\ pc = "call"
    /\ pivot_points' = calculate_pivot_points(hist_df)
    /\ pc' = "return"
    /\ UNCHANGED <<hist_df, grahamVars, sentimentVars, reportVars, news_articles, news_tab, dashVars>>

NextPivot == CallPivotPoints

SpecPivot == InitPivot /\ [][NextPivot]_vars
SpecLevels == InitLevels /\ [][NextPivot]_vars

----------------------------------------------------------------------------
(* run_graham_scan on its own *)

RatioSpan == 2      \* ratios tried on each side of a threshold, in eighths

RatioSamples(threshold) ==
    {Num(n) : n \in {-threshold, 0} \cup ((threshold - RatioSpan)..(threshold + RatioSpan))}
        \cup {PyNone, NotNumber}

\* the provider's info mappings: each ratio key missing, or bound to None,
\* to a number or to something that is not a number
InfoMappings ==
    LET both == {[k \in {"trailingPE", "priceToBook"} |->
                     IF k = "trailingPE" THEN pe ELSE pb] :
                        pe \in RatioSamples(GrahamPE), pb \in RatioSamples(GrahamPB)}
        onlyPE == {[k \in {"trailingPE"} |-> pe] : pe \in RatioSamples(GrahamPE)}
        onlyPB == {[k \in {"priceToBook"} |-> pb] : pb \in RatioSamples(GrahamPB)}
    IN  both \cup onlyPE \cup onlyPB \cup {EmptyDict}

InitGraham ==
    /\ pc = "call"
    /\ info \in InfoMappings \cup {ProviderError}
    /\ graham_scan = Unset
    /\ PivotIdle /\ SentimentIdle /\ ReportIdle /\ NewsIdle /\ DashIdle

CallGrahamScan ==
    /\ pc = "call"
    /\ graham_scan' = run_graham_scan(info)
    /\ pc' = "return"
    /\ UNCHANGED <<info, pivotVars, sentimentVars, reportVars, news_articles, news_tab, dashVars>>

NextGraham == CallGrahamScan
SpecGraham == InitGraham /\ [][NextGraham]_vars

----------------------------------------------------------------------------
(* analyze_sentiment on its own *)

MaxCompound == 100  \* compound scores range over [-1, 1], in hundredths

Headline(compound) == [compound |-> compound]

InitSentiment ==
    /\ pc = "call"
    /\ text \in {Headline(c) : c \in (-MaxCompound)..MaxCompound}
    /\ sentiment = Unset
    /\ PivotIdle /\ GrahamIdle /\ ReportIdle /\ NewsIdle /\ DashIdle

CallAnalyzeSentiment ==
    /\ pc = "call"
    /\ sentiment' = analyze_sentiment(text)
    /\ pc' = "return"
    /\ UNCHANGED <<text, pivotVars, grahamVars, reportVars, news_articles, news_tab, dashVars>>

NextSentiment == CallAnalyzeSentiment
SpecSentiment == InitSentiment /\ [][NextSentiment]_vars

----------------------------------------------------------------------------
(* get_ai_company_report and create_news_tab on their own *)

MaxArticles == 3    \* longest article list

BatchScores == {-MaxCompound, NegativeThreshold, 0, PositiveThreshold, MaxCompound}

Article(compound) == [title |-> Headline(compound), url |-> "https://news"]

ArticleLists ==
    {PyList(items) : items \in SeriesOver({Article(c) : c \in BatchScores}, MaxArticles)}
        \cup {NoList}

GenOutcomes ==
    {GenFails(at) : at \in {"GenerativeModel", "generate_content", "text"}}
        \cup {GenAnswers(t) : t \in {"report A", "report B"}}

InitReport ==
    /\ pc = "call"
    /\ news_articles \in ArticleLists
    /\ gen_outcome \in GenOutcomes
    /\ provider_log = <<>>
    /\ ai_report = Unset
    /\ news_tab = Unset
    /\ PivotIdle /\ GrahamIdle /\ SentimentIdle /\ DashIdle

CallAiCompanyReport ==
    /\ pc = "call"
    /\ LET r == get_ai_company_report("TCS", news_articles, gen_outcome)
       IN  /\ ai_report' = IF r.raised THEN Unset ELSE r.value
           /\ provider_log' = provider_log \o r.calls
           /\ pc' = IF r.raised THEN "raised" ELSE "return"
    /\ UNCHANGED <<news_articles, gen_outcome, news_tab, pivotVars, grahamVars, sentimentVars, dashVars>>

NextReport == CallAiCompanyReport
SpecReport == InitReport /\ [][NextReport]_vars

InitNews ==
    /\ pc = "call"
    /\ news_articles \in ArticleLists
    /\ news_tab = Unset
    /\ PivotIdle /\ GrahamIdle /\ SentimentIdle /\ ReportIdle /\ DashIdle

CallCreateNewsTab ==
    /\ pc = "call"
    /\ news_tab' = create_news_tab(news_articles)
    /\ pc' = "return"
    /\ UNCHANGED <<news_articles, pivotVars, grahamVars, sentimentVars, reportVars, dashVars>>

NextNews == CallCreateNewsTab
SpecNews == InitNews /\ [][NextNews]_vars

----------------------------------------------------------------------------
(* Strings and results *)

\* ticker.upper(), on the values the input field takes
Upper(str) ==
    CASE str = "tcs" -> "TCS"
      [] OTHER -> str

\* str(col).lower(), on the column labels that occur
Lower(label) ==
    CASE label = "Close" -> "close"
      [] label = "High" -> "high"
      [] label = "Low" -> "low"
      [] label = "Open" -> "open"
      [] label = "Volume" -> "volume"
      [] label = "RSI_14" -> "rsi_14"
      [] label = "MACD_12_26_9" -> "macd_12_26_9"
      [] label = "MACDh_12_26_9" -> "macdh_12_26_9"
      [] label = "MACDs_12_26_9" -> "macds_12_26_9"
      [] label = "BBL_5_2.0" -> "bbl_5_2.0"
      [] label = "BBM_5_2.0" -> "bbm_5_2.0"
      [] label = "BBU_5_2.0" -> "bbu_5_2.0"
      [] label = "BBB_5_2.0" -> "bbb_5_2.0"
      [] label = "BBP_5_2.0" -> "bbp_5_2.0"
      [] label = "EMA_50" -> "ema_50"
      [] label = "EMA_200" -> "ema_200"
      [] OTHER -> label

\* a helper that returns a value, or raises
Ok(value) == [raised |-> FALSE, exc |-> "", value |-> value]
Raise(exc) == [raised |-> TRUE, exc |-> exc, value |-> Unset]

----------------------------------------------------------------------------
(* get_stock_info, get_stock_news, get_competitors *)

\* the keys of fundamentals and the info keys they are read from
FundamentalSource ==
    [k \in {"Market Cap", "P/E Ratio", "P/B Ratio", "Dividend Yield",
            "52 Week High", "52 Week Low", "Sector", "Industry"} |->
        CASE k = "Market Cap"     -> "marketCap"
          [] k = "P/E Ratio"      -> "trailingPE"
          [] k = "P/B Ratio"      -> "priceToBook"
          [] k = "Dividend Yield" -> "dividendYield"
          [] k = "52 Week High"   -> "fiftyTwoWeekHigh"
          [] k = "52 Week Low"    -> "fiftyTwoWeekLow"
          [] k = "Sector"         -> "sector"
          [] k = "Industry"       -> "industry"]

\* resp is what yf.Ticker(f"{ticker}.NS").info yields: a mapping, or a raise
get_stock_info(resp) ==
    IF resp = ProviderError
    THEN [fundamentals |-> EmptyDict, summary |-> PyNone]
    ELSE [fundamentals |-> [k \in DOMAIN FundamentalSource |-> Get(resp, FundamentalSource[k])],
          summary |-> Get(resp, "longBusinessSummary")]

\* get_stock_news without the try block
get_stock_news_no_try(resp) ==
    IF resp = ProviderError THEN Raise("ProviderError") ELSE Ok(resp)

\* resp is all_articles['articles'] of newsapi.get_everything, or a raise
get_stock_news(resp) ==
    IF resp = ProviderError THEN Ok(PyList(<<>>)) ELSE Ok(resp)

get_competitors(t) ==
    CASE Upper(t) = "RELIANCE" -> <<"TCS", "INFY", "BHARTIARTL">>
      [] Upper(t) = "TCS"      -> <<"INFY", "WIPRO", "HCLTECH">>
      [] Upper(t) = "HDFCBANK" -> <<"ICICIBANK", "SBIN", "KOTAKBANK">>
      [] OTHER -> <<>>

----------------------------------------------------------------------------
(* The price-series normalizer and calculate_technical_indicators *)

\* hist_df.columns = hist_df.columns.get_level_values(0)
FirstLevel(df) ==
    Frame([j \in 1..Len(df.columns) |-> df.columns[j][1]], df.rows)

\* df.columns = [str(col).lower() for col in df.columns]
LowerColumns(df) ==
    [df EXCEPT !.columns = [j \in 1..Len(df.columns) |-> Lower(df.columns[j])]]

\* the normalizer handing the rows back latest first
Normalize_reversed(df) ==
    LET flat == LowerColumns(IF df.nlevels = 2 THEN FirstLevel(df) ELSE df)
    IN  [flat EXCEPT !.rows = [i \in 1..Len(@) |-> @[Len(@) + 1 - i]]]

\* lines 124-129 of update_dashboard
Normalize(df) == LowerColumns(IF df.nlevels = 2 THEN FirstLevel(df) ELSE df)

\* An argument handed to a helper: the frame, and whether it is the very
\* object that update_dashboard holds as hist_df, so that what the helper
\* does to it in place is seen through hist_df.
\* Passing hist_df itself:
Copy_same_object(df) == [aliases |-> TRUE, frame |-> df]

\* hist_df.copy(): a new object with the same columns and rows
Copy(df) == [aliases |-> FALSE, frame |-> df]

\* The columns pandas_ta appends for rsi, macd, bbands, ema(50), ema(200).
\* The rows of the model stand for a history of any length: lib says
\* whether it is long enough for the 200-day average ("full") or not
\* ("short": ema(length=200) appends nothing).
IndicatorColumns(lib) ==
    <<"RSI_14">> \o <<"MACD_12_26_9", "MACDh_12_26_9", "MACDs_12_26_9">>
        \o <<"BBL_5_2.0", "BBM_5_2.0", "BBU_5_2.0", "BBB_5_2.0", "BBP_5_2.0">>
        \o <<"EMA_50">> \o (IF lib = "full" THEN <<"EMA_200">> ELSE <<>>)

\* df with the columns appended; an indicator value is held as 0
AppendColumns(df, names) ==
    [df EXCEPT !.columns = @ \o names,
               !.rows = [i \in 1..Len(@) |-> @[i] \o [j \in 1..Len(names) |-> 0]]]

\* The outcome of the call and df, the frame passed in, as the call leaves it
calculate_technical_indicators(df, lib) ==
    IF IsEmpty(df) THEN [result |-> Ok(EmptyFrame), df |-> df]
    ELSE IF lib = "raises" THEN [result |-> Raise("IndicatorError"), df |-> df]
    ELSE LET after == AppendColumns(df, IndicatorColumns(lib))
         IN  [result |-> Ok(after), df |-> after]

----------------------------------------------------------------------------
(* The tab builders *)

HasColumns(df, names) == \A name \in names : HasColumn(df, name)

create_overview_tab(summary, fundamentals, df) ==
    IF ~HasColumns(df, {"open", "high", "low", "close"}) THEN Raise("KeyError")
    ELSE Ok([summary |-> summary,
             table |-> [k \in {x \in DOMAIN fundamentals : ~IsNone(fundamentals[x])} |->
                           IF fundamentals[k].kind = "num"
                           THEN Format2f(fundamentals[k].v) ELSE fundamentals[k]],
             chart |-> df])

create_technicals_tab(df) ==
    IF ~HasColumns(df, {"open", "high", "low", "close", "ema_50", "ema_200", "rsi_14"})
    THEN Raise("KeyError")
    ELSE Ok([chart |-> df])

\* f"{v:.2f}" of a price
FormatPrice(value) == [kind |-> "str", s |-> "%.2f", v |-> 100 * value]

create_scans_tab(pivots, graham) ==
    Ok([pivot_table |-> [k \in DOMAIN pivots |-> FormatPrice(pivots[k])],
        graham_table |-> graham])

create_ai_report_tab(report) == Ok([markdown |-> report])

CroreDivisor == 10000000

\* bool(x) of a provider value
Truthy(x) == (x.kind = "num" /\ x.v # 0) \/ (x.kind = "str" /\ x.s # "")

\* resp is what the fundamentals provider answers for each competitor
create_competitors_tab(competitors_list, resp) ==
    LET comp_fundamentals == get_stock_info(resp).fundamentals
        market_cap == Get(comp_fundamentals, "Market Cap")
        pe_ratio == Get(comp_fundamentals, "P/E Ratio")
    IN  IF Len(competitors_list) > 0 /\
           ((Truthy(market_cap) /\ market_cap.kind # "num") \/
            (Truthy(pe_ratio) /\ pe_ratio.kind # "num"))
        THEN Raise("TypeError")
        ELSE Ok([i \in 1..Len(competitors_list) |->
                    [Ticker |-> competitors_list[i],
                     MarketCap |-> IF Truthy(market_cap)
                                   THEN [kind |-> "str", s |-> "%.2f Cr",
                                         v |-> RoundHalfEven(Abs(market_cap.v), 8 * (CroreDivisor \div 100))]
                                   ELSE Str("N/A"),
                     PERatio |-> IF Truthy(pe_ratio) THEN Format2f(pe_ratio.v) ELSE Str("N/A")]])

----------------------------------------------------------------------------
(* The layout and the update_dashboard callback *)

MaxClicks == 1      \* Analyze clicks followed

PromptDiv ==
    [kind |-> "message", text |-> "Please enter a stock ticker and click 'Analyze'.",
     about |-> ""]

NoFundamentals == "Could not retrieve fundamental data for {ticker}. Please check the ticker symbol."
NoHistory == "Could not retrieve historical price data for {ticker}."
UnhandledError == "An error occurred: '{e}'. Please check the ticker symbol and your API keys."

\* html.Div(f"...") naming the ticker or the exception
TextDiv(message, about) == [kind |-> "message", text |-> message, about |-> about]

\* What the live-price container holds.  quoted is the symbol whose info
\* the shown figures were read from; price and change are strings of
\* f"{x:,.2f}", percent is f"{x:.2f}" held as its hundredths.
Container(kind, message, quoted, label, price, change, percent, color, arrow) ==
    [kind |-> kind, text |-> message, quoted |-> quoted, label |-> label,
     price |-> price, change |-> change, percent |-> percent, color |-> color,
     arrow |-> arrow]

\* children="Fetching live price..." of the layout
FetchingPrice ==
    Container("text", "Fetching live price...", "", "", PyNone, PyNone, 0, "", "")

\* html.P("Price data not available.", style={'color': color, ...})
PriceNotAvailable(color) ==
    Container("unavailable", "Price data not available.", "", "", PyNone, PyNone, 0, color, "")

\* no_update
NoUpdate == [no_update |-> TRUE]

\* (change / previous_close) * 100 to two places, in hundredths
ChangePercent(change, previous_close) ==
    (IF (change < 0) # (previous_close < 0) THEN -1 ELSE 1)
        * RoundHalfEven(Abs(change) * 10000, Abs(previous_close))

\* the callback handed the ticker of the last Analyze click
StockInputState_captured(field, captured) == captured

\* State('stock-input', 'value') of update_live_price: the callback is
\* handed the input field's value as it is when the interval fires, whatever
\* ticker the last Analyze click captured
StockInputState(field, captured) == field

\* value is the ticker argument, resp what
\* yf.Ticker(f"{ticker.upper()}.NS").info yields: a mapping, or a raise
update_live_price(value, resp) ==
    IF value = "" THEN NoUpdate
    ELSE IF resp = ProviderError THEN PriceNotAvailable("orange")
    ELSE LET live_price == Get(resp, "currentPrice")
             previous_close == Get(resp, "previousClose")
             display_price == IF ~IsNone(live_price) THEN live_price ELSE previous_close
             price_label == IF IsNone(live_price) /\ ~IsNone(previous_close)
                            THEN "Last Close: " ELSE ""
             change == IF ~IsNone(live_price) /\ Truthy(previous_close)
                       THEN live_price.v - previous_close.v ELSE 0
             change_percent == IF Truthy(previous_close)
                               THEN ChangePercent(change, previous_close.v) ELSE 0
         IN  \* arithmetic or formatting on a value that is not a number raises
             IF live_price.kind = "str" \/ previous_close.kind = "str"
             THEN PriceNotAvailable("orange")
             ELSE IF IsNone(display_price) THEN PriceNotAvailable("gray")
             ELSE Container("price", "", Upper(value) \o ".NS", price_label,
                            Format2f(display_price.v), Format2f(change), change_percent,
                            IF change >= 0 THEN "#34A853" ELSE "#EA4335",
                            IF change >= 0 THEN "up" ELSE "down")

\* the layout returned at lines 144-164
DashboardDiv(t, sector) ==
    [kind |-> "dashboard", text |-> "", about |-> "",
     header |-> [ticker |-> t, sector |-> sector],
     live_price |-> FetchingPrice,
     tabs |-> <<"Overview", "Technicals", "Scans", "AI Report", "News & Sentiment",
                "Competitors">>]

\* Inputs of the dashboard specification
Inputs == {"RELIANCE", "tcs", ""}

FullInfo ==
    [k \in {"marketCap", "trailingPE", "priceToBook", "dividendYield",
            "fiftyTwoWeekHigh", "fiftyTwoWeekLow", "sector", "industry",
            "longBusinessSummary"} |->
        CASE k = "marketCap" -> Num(CroreDivisor)
          [] k = "trailingPE" -> Num(GrahamPE - RatioSpan)
          [] k = "priceToBook" -> Num(GrahamPB - 1)
          [] k = "dividendYield" -> PyNone
          [] k = "fiftyTwoWeekHigh" -> Num(8 * MaxPrice)
          [] k = "fiftyTwoWeekLow" -> Num(8 * MinPrice)
          [] k = "sector" -> Str("Energy")
          [] k = "industry" -> Str("Oil & Gas")
          [] k = "longBusinessSummary" -> Str("summary")]

\* an info mapping, sparse or full, or a raise
InfoAnswers == {ProviderError, EmptyDict, FullInfo}

\* rows <<close, high, low, open, volume>>
SampleRows ==
    LET b1 == <<MinPrice, MaxPrice, MinPrice, MinPrice, 1>>
        b2 == <<MaxPrice, MaxPrice, MinPrice, MaxPrice, 1>>
    IN  {<<>>, <<b1>>, <<b2, b1>>}

\* what yf.download returns: title-case columns, MultiIndex (name, symbol)
\* columns, or lowercase columns
RawFrame(scheme, t, rows) ==
    LET names == <<"Close", "High", "Low", "Open", "Volume">>
    IN  CASE scheme = "multi" ->
                MultiFrame([j \in 1..Len(names) |-> <<names[j], t>>], rows)
          [] scheme = "lower" ->
                Frame([j \in 1..Len(names) |-> Lower(names[j])], rows)
          [] OTHER -> Frame(names, rows)

NewsAnswers ==
    {ProviderError, PyList(<<>>), PyList(<<Article(PositiveThreshold)>>),
     PyList(<<Article(PositiveThreshold), Article(NegativeThreshold)>>)}

DashGenOutcomes == {GenFails("generate_content"), GenAnswers("report A")}

requestVars == <<ticker, stock_info, hist_df, tech_df, pivot_points, info, graham_scan,
                 news_articles, gen_outcome, provider_log, ai_report, tab_children,
                 faults>>

InitDash ==
    /\ pc = "page_load"
    /\ stock_input = "RELIANCE"
    /\ n_clicks = 0
    /\ dashboard = Unset
    /\ tab_children = Unset
    /\ ticker = Unset /\ stock_info = Unset /\ tech_df = Unset /\ faults = {}
    /\ PivotIdle /\ GrahamIdle /\ SentimentIdle /\ ReportIdle /\ NewsIdle

\* the except block of update_dashboard
ErrorDiv(exc) == TextDiv(UnhandledError, exc)

\* the callback as the page loads: n_clicks == 0
PageLoad ==
    /\ pc = "page_load"
    /\ dashboard' = PromptDiv
    /\ pc' = "idle"
    /\ UNCHANGED <<stock_input, n_clicks, requestVars, text, sentiment, news_tab>>

\* the user types into the input field; an edit made while a request runs
\* is taken after it, the request having read the field when it started
EditInput ==
    /\ pc = "idle"
    /\ \E value \in Inputs : stock_input' = value
    /\ UNCHANGED <<pc, n_clicks, dashboard, requestVars, text, sentiment, news_tab>>

\* a click on Analyze starts update_dashboard(n_clicks, ticker): lines 110-111
ClickAnalyze ==
    /\ pc = "idle"
    /\ n_clicks < MaxClicks
    /\ n_clicks' = n_clicks + 1
    /\ ticker' = Upper(stock_input)
    /\ stock_info' = Unset /\ hist_df' = Unset /\ tech_df' = Unset
    /\ pivot_points' = Unset /\ info' = Unset /\ graham_scan' = Unset
    /\ news_articles' = Unset /\ gen_outcome' = Unset /\ provider_log' = <<>>
    /\ ai_report' = Unset /\ tab_children' = Unset /\ faults' = {}
    /\ pc' = "get_stock_info"
    /\ UNCHANGED <<stock_input, dashboard, text, sentiment, news_tab>>

\* lines 114-116
FetchStockInfo ==
    /\ pc = "get_stock_info"
    /\ \E resp \in InfoAnswers :
        LET r == get_stock_info(resp)
        IN  /\ stock_info' = r
            /\ faults' = faults \cup (IF resp = ProviderError THEN {"get_stock_info"} ELSE {})
            /\ IF DOMAIN r.fundamentals = {}
               THEN dashboard' = TextDiv(NoFundamentals, ticker) /\ pc' = "idle"
               ELSE dashboard' = dashboard /\ pc' = "download"
    /\ UNCHANGED <<stock_input, n_clicks, ticker, hist_df, tech_df, pivot_points, info,
                   graham_scan, news_articles, gen_outcome, provider_log, ai_report,
                   tab_children, text, sentiment, news_tab>>

\* lines 118-130 without the hist_df.empty check
AfterDownload_no_empty_check(raw) == [to |-> "indicators", hist_df |-> Normalize(raw)]

\* lines 119-130: where the call goes after yf.download returned raw
AfterDownload(raw) ==
    IF IsEmpty(raw) THEN [to |-> "no_history", hist_df |-> raw]
    ELSE [to |-> "indicators", hist_df |-> Normalize(raw)]

\* lines 118-130
DownloadHistory ==
    /\ pc = "download"
    /\ \/ /\ faults' = faults \cup {"yf.download"}
          /\ dashboard' = ErrorDiv("ProviderError")
          /\ pc' = "idle"
          /\ UNCHANGED hist_df
       \/ \E scheme \in {"title", "multi", "lower"}, rows \in SampleRows :
            LET after == AfterDownload(RawFrame(scheme, ticker, rows))
            IN  /\ hist_df' = after.hist_df
                /\ IF after.to = "no_history"
                   THEN dashboard' = TextDiv(NoHistory, ticker) /\ pc' = "idle"
                   ELSE dashboard' = dashboard /\ pc' = "indicators"
                /\ UNCHANGED faults
    /\ UNCHANGED <<stock_input, n_clicks, ticker, stock_info, tech_df, pivot_points, info,
                   graham_scan, news_articles, gen_outcome, provider_log, ai_report,
                   tab_children, text, sentiment, news_tab>>

\* lines 132-133
Indicators ==
    /\ pc = "indicators"
    /\ \E lib \in {"full", "short", "raises"} :
        LET arg == Copy(hist_df)
            r == calculate_technical_indicators(arg.frame, lib)
        IN  IF r.result.raised
            THEN /\ dashboard' = ErrorDiv(r.result.exc) /\ pc' = "idle"
                 /\ hist_df' = IF arg.aliases THEN r.df ELSE hist_df
                 /\ UNCHANGED tech_df
            ELSE /\ tech_df' = LowerColumns(r.result.value)
                 \* the frame returned is the argument unless that was empty
                 /\ hist_df' = IF arg.aliases /\ ~IsEmpty(arg.frame)
                                THEN LowerColumns(r.df) ELSE hist_df
                 /\ pc' = "pivots"
                 /\ UNCHANGED dashboard
    /\ UNCHANGED <<stock_input, n_clicks, ticker, stock_info, pivot_points, info,
                   graham_scan, news_articles, gen_outcome, provider_log, ai_report,
                   tab_children, faults, text, sentiment, news_tab>>

\* line 135
PivotPoints ==
    /\ pc = "pivots"
    /\ LET r == calculate_pivot_points(Copy(hist_df).frame)
       IN  IF r = KeyError
           THEN dashboard' = ErrorDiv("KeyError") /\ pc' = "idle" /\ UNCHANGED pivot_points
           ELSE pivot_points' = r /\ pc' = "graham" /\ UNCHANGED dashboard
    /\ UNCHANGED <<stock_input, n_clicks, ticker, stock_info, hist_df, tech_df, info,
                   graham_scan, news_articles, gen_outcome, provider_log, ai_report,
                   tab_children, faults, text, sentiment, news_tab>>

\* line 136
GrahamScan ==
    /\ pc = "graham"
    /\ \E resp \in InfoAnswers :
        /\ info' = resp
        /\ graham_scan' = run_graham_scan(resp)
        /\ faults' = faults \cup (IF resp = ProviderError THEN {"run_graham_scan"} ELSE {})
    /\ pc' = "news"
    /\ UNCHANGED <<stock_input, n_clicks, dashboard, ticker, stock_info, hist_df, tech_df,
                   pivot_points, news_articles, gen_outcome, provider_log, ai_report,
                   tab_children, text, sentiment, news_tab>>

\* line 137
FetchNews ==
    /\ pc = "news"
    /\ \E resp \in NewsAnswers :
        LET r == get_stock_news(resp)
        IN  /\ faults' = faults \cup (IF resp = ProviderError THEN {"get_stock_news"} ELSE {})
            /\ IF r.raised
               THEN dashboard' = ErrorDiv(r.exc) /\ pc' = "idle" /\ UNCHANGED news_articles
               ELSE news_articles' = r.value /\ pc' = "report" /\ UNCHANGED dashboard
    /\ UNCHANGED <<stock_input, n_clicks, ticker, stock_info, hist_df, tech_df, pivot_points,
                   info, graham_scan, gen_outcome, provider_log, ai_report, tab_children,
                   text, sentiment, news_tab>>

\* line 138; the provider's behaviour matters only when it is called
AiReport ==
    /\ pc = "report"
    /\ \E outcome \in DashGenOutcomes :
        LET r == get_ai_company_report(ticker, news_articles, outcome)
        IN  /\ r.calls = <<>> => outcome = GenAnswers("report A")
            /\ gen_outcome' = IF r.calls = <<>> THEN Unset ELSE outcome
            /\ provider_log' = provider_log \o r.calls
            /\ faults' = faults \cup (IF r.calls # <<>> /\ outcome.fails_at # "nowhere"
                                      THEN {"get_ai_company_report"} ELSE {})
            /\ IF r.raised
               THEN dashboard' = ErrorDiv("ProviderError") /\ pc' = "idle" /\ UNCHANGED ai_report
               ELSE ai_report' = r.value /\ pc' = "assemble" /\ UNCHANGED dashboard
    /\ UNCHANGED <<stock_input, n_clicks, ticker, stock_info, hist_df, tech_df, pivot_points,
                   info, graham_scan, news_articles, tab_children, text, sentiment, news_tab>>

\* lines 139-164: get_competitors and the six tab builders, in order
Assemble ==
    /\ pc = "assemble"
    /\ \E resp \in {ProviderError, FullInfo} :
        LET competitors == get_competitors(ticker)
            overview == create_overview_tab(stock_info.summary, stock_info.fundamentals, hist_df)
            technicals == create_technicals_tab(tech_df)
            scans == create_scans_tab(pivot_points, graham_scan)
            report == create_ai_report_tab(ai_report)
            news == Ok(create_news_tab(news_articles))
            comps == create_competitors_tab(competitors, resp)
            built == <<overview, technicals, scans, report, news, comps>>
            failed == {i \in 1..6 : built[i].raised}
        IN  /\ resp = ProviderError => Len(competitors) > 0
            /\ faults' = faults \cup (IF resp = ProviderError /\ failed = {}
                                      THEN {"create_competitors_tab"} ELSE {})
            /\ IF failed # {}
               THEN /\ dashboard' = ErrorDiv(built[CHOOSE i \in failed : \A j \in failed : i <= j].exc)
                    /\ UNCHANGED tab_children
               ELSE /\ dashboard' = DashboardDiv(ticker, Get(stock_info.fundamentals, "Sector"))
                    /\ tab_children' = [i \in 1..6 |-> built[i].value]
    /\ pc' = "idle"
    /\ UNCHANGED <<stock_input, n_clicks, ticker, stock_info, hist_df, tech_df, pivot_points,
                   info, graham_scan, news_articles, gen_outcome, provider_log, ai_report,
                   text, sentiment, news_tab>>

\* what the info mapping of a quote holds: a rise or a fall from the last
\* close, the last close only, a zero last close, no price, not a number,
\* or a raise
QuoteAnswers ==
    LET quote(live, close) ==
            [k \in {"currentPrice", "previousClose"} |->
                IF k = "currentPrice" THEN live ELSE close]
    IN  {ProviderError, EmptyDict,
         quote(Num(8 * MaxPrice), Num(8 * MinPrice)),
         quote(Num(8 * MinPrice), Num(8 * MaxPrice)),
         quote(PyNone, Num(8 * MinPrice)),
         quote(Num(8 * MinPrice), Num(0)),
         quote(NotNumber, Num(8 * MinPrice))}

\* lines 173-224: the interval of a rendered dashboard fires and
\* update_live_price(n, ticker) runs with the input field's value.  A tick
\* that falls inside a running request is taken before it: the steps of a
\* request read neither the input field nor the container, and its return
\* replaces the whole dashboard, so the two orders end in the same state.
LivePriceTick ==
    /\ pc = "idle"
    /\ dashboard # Unset
    /\ dashboard.kind = "dashboard"
    /\ \E resp \in QuoteAnswers :
        LET value == StockInputState(stock_input, ticker)
            out == update_live_price(value, resp)
        IN  \* the provider is not called when the ticker argument is empty
            /\ value = "" => resp = ProviderError
            /\ dashboard' = IF out = NoUpdate THEN dashboard
                             ELSE [dashboard EXCEPT !.live_price = out]
    /\ UNCHANGED <<pc, stock_input, n_clicks, requestVars, text, sentiment, news_tab>>

Next ==
    \/ LivePriceTick
    \/ PageLoad
    \/ EditInput
    \/ ClickAnalyze
    \/ FetchStockInfo
    \/ DownloadHistory
    \/ Indicators
    \/ PivotPoints
    \/ GrahamScan
    \/ FetchNews
    \/ AiReport
    \/ Assemble

Init == InitDash
Spec == Init /\ [][Next]_vars

----------------------------------------------------------------------------
(* The price-series normalizer on its own *)

\* rows <<close, high, low, open, volume>> of the normalizer's inputs
NormalizerRows ==
    LET b1 == <<MinPrice, MaxPrice, MinPrice, MinPrice, 1>>
        b2 == <<MaxPrice, MaxPrice, MinPrice, MaxPrice, 2>>
        b3 == <<MinPrice, MinPrice, MinPrice, MinPrice, 0>>
    IN  SeriesOver({b1, b2, b3}, MaxBars)

\* price tables as yf.download returns them, and normalized ones
InitNormalize ==
    /\ pc = "call"
    /\ \E scheme \in {"title", "multi", "lower"}, t \in {"RELIANCE.NS", "TCS.NS"},
          rows \in NormalizerRows :
            hist_df = RawFrame(scheme, t, rows)
    /\ pivot_points = Unset
    /\ GrahamIdle /\ SentimentIdle /\ ReportIdle /\ NewsIdle /\ DashIdle

\* lines 124-129, applied to the table and then to its own output
CallNormalizer ==
    /\ pc \in {"call", "return"}
    /\ hist_df' = Normalize(hist_df)
    /\ pc' = IF pc = "call" THEN "return" ELSE "again"
    /\ UNCHANGED <<pivot_points, grahamVars, sentimentVars, reportVars, news_articles,
                   news_tab, dashVars>>

NextNormalize == CallNormalizer
SpecNormalize == InitNormalize /\ [][NextNormalize]_vars

----------------------------------------------------------------------------
(* Claims about calculate_pivot_points *)

NBars == Len(hist_df.rows)
PivotReturned == pc = "return"

\* the second-to-last bar, index n-2 counting from 0
Bar == hist_df.rows[NBars - 1]
BarHigh == Cell(hist_df, Bar, "high")
BarLow == Cell(hist_df, Bar, "low")
BarClose == Cell(hist_df, Bar, "close")

LvlP == pivot_points["Pivot Point"]
LvlR1 == pivot_points["Resistance 1 (R1)"]
LvlR2 == pivot_points["Resistance 2 (R2)"]
LvlS1 == pivot_points["Support 1 (S1)"]
LvlS2 == pivot_points["Support 2 (S2)"]

\* C1: for every series with n >= 2 bars the result has exactly the five
\* level keys, and its values are the floor-trader formulas, in floating
\* point, of the high, low and close of the second-to-last bar:
\* pivot = (high+low+close)/3, R1 = 2*pivot - low, S1 = 2*pivot - high,
\* R2 = pivot + (high-low), S2 = pivot - (high-low).
C1_PivotFromSecondLastBar ==
    (PivotReturned /\ NBars >= 2) =>
        /\ DOMAIN pivot_points = {"Resistance 2 (R2)", "Resistance 1 (R1)",
                                  "Pivot Point", "Support 1 (S1)", "Support 2 (S2)"}
        /\ LvlP = Round(Round(Round(BarHigh + BarLow, 1) + BarClose, 1), 3)
        /\ LvlR1 = Round(2 * LvlP - BarLow, 1)
        /\ LvlS1 = Round(2 * LvlP - BarHigh, 1)
        /\ LvlR2 = Round(LvlP + Round(BarHigh - BarLow, 1), 1)
        /\ LvlS2 = Round(LvlP - Round(BarHigh - BarLow, 1), 1)

\* a three-bar series whose last two bars differ, after the call
C1_Witness ==
    /\ PivotReturned
    /\ NBars = 3
    /\ hist_df.rows[3] # hist_df.rows[2]
    /\ hist_df.rows[1] # hist_df.rows[2]
    /\ BarHigh > BarLow
    /\ pivot_points # EmptyDict

\* C8: the result is the empty mapping, and no error, for every series
\* with fewer than 2 bars, and a non-empty mapping for 2 or more bars.
C8_EmptyBelowTwoBars ==
    PivotReturned =>
        /\ pivot_points # KeyError
        /\ NBars < 2 => pivot_points = EmptyDict
        /\ NBars >= 2 => DOMAIN pivot_points # {}

\* a one-bar series answered with the empty mapping
C8_Witness == PivotReturned /\ NBars = 1 /\ pivot_points = EmptyDict

\* no operation of the calculation rounds: every exact intermediate result
\* of the bar is a float
NoRounding ==
    LET sum == BarHigh + BarLow + BarClose
        p == sum \div 3
        d == BarHigh - BarLow
    IN  /\ IsFloat(BarHigh + BarLow) /\ IsFloat(sum)
        /\ sum % 3 = 0 /\ IsFloat(p)
        /\ IsFloat(2 * p - BarLow) /\ IsFloat(2 * p - BarHigh)
        /\ IsFloat(d) /\ IsFloat(p + d) /\ IsFloat(p - d)

\* C10 as stated: R1 + S1 = 2*Pivot and R2 - S2 = 2*(high-low) for every
\* bar, and S2 <= S1 <= Pivot <= R1 <= R2 whenever low <= close <= high.
C10_AsStated ==
    (PivotReturned /\ NBars >= 2) =>
        /\ LvlR1 + LvlS1 = 2 * LvlP
        /\ LvlR2 - LvlS2 = 2 * (BarHigh - BarLow)
        /\ (BarLow <= BarClose /\ BarClose <= BarHigh) =>
               (LvlS2 <= LvlS1 /\ LvlS1 <= LvlP /\ LvlP <= LvlR1 /\ LvlR1 <= LvlR2)

\* C10 amended: when no operation rounds, R1 + S1 = 4*Pivot - (high+low) and
\* R2 - S2 = 2*(high-low); for every bar with low <= close <= high,
\* S2 <= Pivot <= R2 and S1 <= R1, and the whole chain
\* S2 <= S1 <= Pivot <= R1 <= R2 when the computed pivot lies in [low, high].
C10_LevelRelations ==
    (PivotReturned /\ NBars >= 2) =>
        /\ NoRounding =>
               /\ LvlR1 + LvlS1 = 4 * LvlP - (BarHigh + BarLow)
               /\ LvlR2 - LvlS2 = 2 * (BarHigh - BarLow)
        /\ (BarLow <= BarClose /\ BarClose <= BarHigh) =>
               /\ LvlS2 <= LvlP /\ LvlP <= LvlR2 /\ LvlS1 <= LvlR1
               /\ (BarLow <= LvlP /\ LvlP <= BarHigh) =>
                      (LvlS2 <= LvlS1 /\ LvlS1 <= LvlP /\ LvlP <= LvlR1 /\ LvlR1 <= LvlR2)

\* a well-formed bar with high > close > low whose levels are computed
\* without rounding and whose close is not the midpoint of high and low
C10_Witness ==
    /\ PivotReturned /\ NBars >= 2
    /\ NoRounding
    /\ BarLow < BarClose /\ BarClose < BarHigh
    /\ 2 * BarClose # BarHigh + BarLow
    /\ BarLow <= LvlP /\ LvlP <= BarHigh

----------------------------------------------------------------------------
(* Claims about run_graham_scan *)

GrahamReturned == pc = "return" /\ info # Unset
InfoPE == Get(info, "trailingPE")
InfoPB == Get(info, "priceToBook")

\* C2: when the provider answers, the verdict follows the decision table:
\* P/E or P/B absent gives "Not enough data"; both present (numbers) with
\* P/E < 15 and P/B < 1.5, both strict, gives "Potentially Undervalued";
\* both present otherwise gives "Not Meeting Graham Criteria".
C2_GrahamDecisionTable ==
    (GrahamReturned /\ info # ProviderError) =>
        /\ (IsNone(InfoPE) \/ IsNone(InfoPB)) =>
               (DOMAIN graham_scan # {} /\ graham_scan["Verdict"] = "Not enough data")
        /\ (InfoPE.kind = "num" /\ InfoPB.kind = "num") =>
               /\ DOMAIN graham_scan # {}
               /\ graham_scan["Verdict"] =
                      IF InfoPE.v < 120 /\ InfoPB.v < 12
                      THEN "Potentially Undervalued"
                      ELSE "Not Meeting Graham Criteria"

\* P/E exactly 15 with P/B below 1.5 does not meet the criteria
C2_Witness ==
    /\ GrahamReturned /\ info # ProviderError
    /\ InfoPE = Num(120) /\ InfoPB.kind = "num" /\ InfoPB.v < 12 /\ InfoPB.v > 0
    /\ graham_scan["Verdict"] = "Not Meeting Graham Criteria"

\* C11 as stated: the result is the empty mapping only when the fundamentals
\* provider or the comparison raised.
C11_AsStated ==
    (GrahamReturned /\ DOMAIN graham_scan = {}) =>
        GrahamRaisedAt(info) \in {"provider", "comparison"}

\* C11 amended: the result has one of three shapes: the empty mapping,
\* exactly when the provider, the comparison or the two-decimal formatting
\* of a ratio raised; the single-key mapping {"Verdict": "Not enough data"};
\* or the three-key mapping with the formatted "P/E Ratio" and "P/B Ratio"
\* and a "Verdict" that is "Potentially Undervalued" or "Not Meeting Graham
\* Criteria".  The formatted keys are present if and only if a verdict is
\* present and is not "Not enough data".
C11_GrahamShapes ==
    GrahamReturned =>
        /\ DOMAIN graham_scan \in
               {{}, {"Verdict"}, {"P/E Ratio", "P/B Ratio", "Verdict"}}
        /\ DOMAIN graham_scan = {} <=>
               GrahamRaisedAt(info) \in {"provider", "comparison", "format"}
        /\ DOMAIN graham_scan = {"Verdict"} =>
               graham_scan["Verdict"] = "Not enough data"
        /\ DOMAIN graham_scan = {"P/E Ratio", "P/B Ratio", "Verdict"} =>
               /\ graham_scan["Verdict"] \in
                      {"Potentially Undervalued", "Not Meeting Graham Criteria"}
               /\ graham_scan["P/E Ratio"] = Format2f(InfoPE.v)
               /\ graham_scan["P/B Ratio"] = Format2f(InfoPB.v)
        /\ DOMAIN graham_scan # {} =>
               ({"P/E Ratio", "P/B Ratio"} \subseteq DOMAIN graham_scan
                    <=> graham_scan["Verdict"] # "Not enough data")

\* a three-key result: P/E 14.75 formatted as "14.75", verdict undervalued
C11_Witness ==
    /\ GrahamReturned
    /\ DOMAIN graham_scan = {"P/E Ratio", "P/B Ratio", "Verdict"}
    /\ graham_scan["Verdict"] = "Potentially Undervalued"
    /\ graham_scan["P/E Ratio"].v = 1475

\* P/E of 15 or more with a P/B that is not a number: nothing is compared
\* with the P/B, and formatting it raises
C11_FormatRaised ==
    /\ GrahamReturned
    /\ GrahamRaisedAt(info) = "format"
    /\ graham_scan = EmptyDict

----------------------------------------------------------------------------
(* Claims about analyze_sentiment *)

SentimentReturned == pc = "return" /\ text # Unset

\* C3: the label follows the compound score with inclusive boundaries
\* (>= 0.05 Positive, <= -0.05 Negative, strictly between Neutral), exactly
\* one label is returned, and the score is returned unmodified.
C3_SentimentThresholds ==
    SentimentReturned =>
        /\ sentiment[1] \in {"Positive", "Negative", "Neutral"}
        /\ sentiment[1] = "Positive" <=> text.compound >= 5
        /\ sentiment[1] = "Negative" <=> text.compound <= -5
        /\ sentiment[1] = "Neutral" <=> (-5 < text.compound /\ text.compound < 5)
        /\ sentiment[2] = text.compound

\* a score of exactly 0.05 labelled Positive
C3_Witness ==
    SentimentReturned /\ text.compound = 5 /\ sentiment = <<"Positive", 5>>

----------------------------------------------------------------------------
(* Claims about get_ai_company_report *)

ReportEnded == pc \in {"return", "raised"} /\ gen_outcome # Unset
NoHeadlines == news_articles.kind = "none" \/ Len(news_articles.v) = 0

\* C4: with zero headlines (empty or missing list) the fixed string
\* "Not enough recent news to generate a report." is returned and the
\* text-generation provider is not called; with a non-empty list it is.
C4_NoNewsNoProviderCall ==
    ReportEnded =>
        /\ NoHeadlines =>
               /\ pc = "return"
               /\ ai_report = "Not enough recent news to generate a report."
               /\ provider_log = <<>>
        /\ ~NoHeadlines =>
               /\ Len(provider_log) >= 1
               /\ provider_log[1].call = "GenerativeModel"

\* an empty list answered without any provider call
C4_Witness ==
    /\ pc = "return" /\ gen_outcome # Unset
    /\ news_articles = PyList(<<>>)
    /\ ai_report = NotEnoughNews
    /\ provider_log = <<>>

\* C5: with at least one headline, a provider failure at any of the three
\* points yields the fixed fallback string and nothing propagates to the
\* caller; a provider answer is returned unmodified.
C5_ProviderFailureFallback ==
    (ReportEnded /\ ~NoHeadlines) =>
        /\ pc = "return"
        /\ gen_outcome.fails_at # "nowhere" =>
               ai_report = "Could not generate AI report at this time."
        /\ gen_outcome.fails_at = "nowhere" => ai_report = gen_outcome.text

\* the provider failed while response.text was read and the fallback came back
C5_Witness ==
    /\ pc = "return" /\ gen_outcome # Unset
    /\ ~NoHeadlines
    /\ gen_outcome.fails_at = "text"
    /\ Len(provider_log) = 2
    /\ ai_report = ReportFallback

----------------------------------------------------------------------------
(* Claims about create_news_tab *)

NewsTabReturned == pc = "return" /\ news_tab # Unset

RECURSIVE SumOfCompounds(_)
SumOfCompounds(articles) ==
    IF articles = <<>> THEN 0
    ELSE articles[1].title.compound + SumOfCompounds(Tail(articles))

\* C9: for N >= 1 headlines the aggregate is the sum of the N compound
\* scores divided by N, each headline scored once; for N = 0 no mean is
\* computed and the tab is the message "No recent news articles found.".
C9_BatchMean ==
    NewsTabReturned =>
        IF NoHeadlines
        THEN /\ news_tab.kind = "message"
             /\ news_tab.text = "No recent news articles found."
        ELSE /\ news_tab.kind = "news"
             /\ news_tab.avg_sentiment.num = SumOfCompounds(news_articles.v)
             /\ news_tab.avg_sentiment.den = Len(news_articles.v)
             /\ news_tab.analyzer_calls = Len(news_articles.v)

\* two headlines scoring 0.05 and -0.05: the mean is 0/2
C9_Witness ==
    /\ NewsTabReturned
    /\ news_articles = PyList(<<Article(5), Article(-5)>>)
    /\ news_tab.kind = "news"
    /\ news_tab.avg_sentiment = Quotient(0, 2)

----------------------------------------------------------------------------
(* Claims about update_dashboard *)

\* an analyze request has returned
RequestDone == pc = "idle" /\ n_clicks >= 1

\* the calls whose collaborator failure is swallowed where it is made
SwallowedFaults ==
    {"run_graham_scan", "get_stock_news", "get_ai_company_report", "create_competitors_tab"}

\* the price history arrived with rows and the indicator columns that the
\* Technicals tab reads were appended
ChartsAvailable ==
    /\ hist_df # Unset /\ ~IsEmpty(hist_df)
    /\ tech_df # Unset
    /\ HasColumns(tech_df, {"ema_50", "ema_200", "rsi_14"})

ZeroRowHistory == hist_df # Unset /\ Len(hist_df.rows) = 0

----------------------------------------------------------------------------
(* Claims about the price-series normalizer *)

\* single-level columns whose names are lowercase
IsNormalized(df) ==
    /\ df.nlevels = 1
    /\ \A j \in 1..Len(df.columns) : Lower(df.columns[j]) = df.columns[j]

\* C12: the normalizer is a pure renaming: it keeps the number and the
\* order of the rows and the number of columns, its output is normalized,
\* and applied to an already-normalized series it yields a series equal to
\* its input.
C12_NormalizerRenames ==
    [][/\ hist_df'.rows = hist_df.rows
       /\ Len(hist_df'.columns) = Len(hist_df.columns)
       /\ IsNormalized(hist_df')
       /\ IsNormalized(hist_df) => hist_df' = hist_df]_vars

\* the normalizer has been applied to its own output, a series of two
\* different rows
C12_Witness ==
    /\ pc = "again"
    /\ IsNormalized(hist_df)
    /\ Len(hist_df.rows) >= 2
    /\ hist_df.rows[1] # hist_df.rows[2]

----------------------------------------------------------------------------
(* Claims about the frames update_dashboard holds *)

\* C13: the price series held by update_dashboard has the same columns and
\* rows after the technical-indicator and the pivot-point calculations as
\* before them, although the indicator columns are appended in place to the
\* frame that calculate_technical_indicators receives; the pivot calculator
\* and the overview tab are given exactly that series.
C13_PriceSeriesNotMutated ==
    [][/\ pc \in {"indicators", "pivots"} => hist_df' = hist_df
       /\ (pc = "indicators" /\ pc' = "pivots") =>
              /\ Len(tech_df'.columns) > Len(hist_df'.columns)
              /\ IsNormalized(hist_df') /\ Len(hist_df'.columns) = 5
       /\ (pc = "pivots" /\ pc' = "graham") =>
              pivot_points' = calculate_pivot_points(hist_df)
       /\ (pc = "assemble" /\ tab_children' # Unset) =>
              /\ tab_children'[1].chart = hist_df
              /\ Len(hist_df.columns) = 5]_vars

\* a dashboard whose Technicals chart carries the indicator columns while
\* the Overview chart is the five-column price series
C13_Witness ==
    /\ RequestDone
    /\ tab_children # Unset
    /\ tab_children[1].chart = hist_df
    /\ Len(hist_df.columns) = 5 /\ Len(hist_df.rows) >= 2
    /\ Len(tab_children[2].chart.columns) > 5

----------------------------------------------------------------------------
(* Claims about update_live_price *)

\* a step in which the live-price container of the rendered dashboard is
\* given new content
ContainerUpdated ==
    /\ pc' = pc
    /\ dashboard # Unset /\ dashboard' # dashboard
    /\ dashboard'.header = dashboard.header

\* C14: a live-price tick quotes the symbol made of the uppercased value of
\* the input field at the moment of the tick, whatever ticker the last
\* Analyze click captured and the header shows, and makes no update while
\* the field is empty.
C14_TickQuotesInputField ==
    [][/\ (pc' = pc /\ stock_input = "") => dashboard' = dashboard
       /\ (ContainerUpdated /\ dashboard'.live_price.kind = "price") =>
              dashboard'.live_price.quoted = Upper(stock_input) \o ".NS"]_vars

\* the header shows RELIANCE while the container shows a price of TCS.NS,
\* the input having been edited to "tcs" with no Analyze click since
C14_Witness ==
    /\ dashboard # Unset
    /\ dashboard.kind = "dashboard"
    /\ dashboard.header.ticker = "RELIANCE"
    /\ ticker = "RELIANCE"
    /\ stock_input = "tcs"
    /\ dashboard.live_price.kind = "price"
    /\ dashboard.live_price.quoted = "TCS.NS"

====
